---- MODULE Spec2Model ----
(***************************************************************************)
(* A model of app.py, a Streamlit weather dashboard.  The script is run    *)
(* top to bottom on every user interaction (one render cycle); the only    *)
(* state that survives a cycle is held by the two st.cache_data caches.    *)
(*                                                                         *)
(* Encoding of Python values.  None, ints and floats are tagged records    *)
(* (floats carry one decimal digit, as tenths).  A dict is a function      *)
(* whose domain is its key set.  Text that is not ASCII in the source is   *)
(* written with a name in braces: "{deg}" is the degree sign, "{sun}" the  *)
(* sun emoji, and so on.                                                   *)
(***************************************************************************)
EXTENDS Integers, Sequences, FiniteSets, TLC

VARIABLES
    geoCache,      \* st.cache_data store of get_coordinates, by city_name
    weatherCache,  \* st.cache_data store of fetch_weather_data, by arguments
    today,         \* the UTC date datetime.utcnow() falls on
    view,          \* what the last run of the script put on the page
    geoWin,        \* history: per city, the calls of its current 1-hour window
    prevFailed,    \* history: the fetch keys that returned None one cycle ago
    probe,         \* argument of the function under test (function specs)
    result         \* its result

vars == <<geoCache, weatherCache, today, view, geoWin, prevFailed, probe, result>>

-----------------------------------------------------------------------------
(* Python values *)

None == [t |-> "None"]
PyInt(n) == [t |-> "int", v |-> n]
PyFloat(n) == [t |-> "float", tenths |-> n]
EmptyDict == [k \in {} |-> None]

Abs(n) == IF n < 0 THEN 0 - n ELSE n
Min(a, b) == IF a < b THEN a ELSE b

Digit(n) ==
    CASE n = 0 -> "0" [] n = 1 -> "1" [] n = 2 -> "2" [] n = 3 -> "3"
      [] n = 4 -> "4" [] n = 5 -> "5" [] n = 6 -> "6" [] n = 7 -> "7"
      [] n = 8 -> "8" [] n = 9 -> "9"

RECURSIVE NatStr(_)
NatStr(n) == IF n < 10 THEN Digit(n) ELSE NatStr(n \div 10) \o Digit(n % 10)

IntStr(n) == IF n < 0 THEN "-" \o NatStr(0 - n) ELSE NatStr(n)

\* str() of a value, as an f-string field formats it
PyStr(x) ==
    CASE x.t = "None" -> "None"
      [] x.t = "str" -> x.s
      [] x.t = "int" -> IntStr(x.v)
      [] x.t = "float" ->
            (IF x.tenths < 0 THEN "-" ELSE "")
                \o NatStr(Abs(x.tenths) \div 10) \o "." \o Digit(Abs(x.tenths) % 10)

\* dict.get(key, default)
DictGet(d, key, default) == IF key \in DOMAIN d THEN d[key] ELSE default

\* truth value of a fetched object: None and the empty dict are false
Truthy(x) == x # None /\ DOMAIN x # {}

-----------------------------------------------------------------------------
(* WEATHER_ICONS and get_weather_icon *)

GEOCODING_API_URL == "https://geocoding-api.open-meteo.com/v1/search"
WEATHER_API_URL == "https://api.open-meteo.com/v1/forecast"

SENTINEL == "{question}"

IconCodes ==
    {0, 1, 2, 3, 45, 48, 51, 53, 55, 56, 57, 61, 63, 65, 66, 67,
     71, 73, 75, 77, 80, 81, 82, 85, 86, 95, 96, 99}

WEATHER_ICONS ==
    [c \in IconCodes |->
        CASE c = 0 -> "{sun}"
          [] c = 1 -> "{sun_small_cloud}"
          [] c = 2 -> "{sun_behind_cloud}"
          [] c = 3 -> "{cloud}"
          [] c \in {45, 48} -> "{fog}"
          [] c \in {51, 53, 55} -> "{sun_rain_cloud}"
          [] c \in {56, 57} -> "{snow_cloud}"
          [] c \in {61, 63, 65} -> "{rain_cloud}"
          [] c \in {66, 67} -> "{snow_cloud}"
          [] c \in {71, 73, 75, 77} -> "{snowflake}"
          [] c \in {80, 81, 82} -> "{rain_cloud}"
          [] c \in {85, 86} -> "{snowflake}"
          [] c \in {95, 96, 99} -> "{thunder_cloud}"]

PyText(str) == [t |-> "str", s |-> str]

IsIconKey(x) == x.t = "int" /\ x.v \in DOMAIN WEATHER_ICONS

\* WEATHER_ICONS.get(weather_code) with no default: None for a missing key
get_weather_icon_nodefault(weather_code) ==
    IF IsIconKey(weather_code) THEN PyText(WEATHER_ICONS[weather_code.v]) ELSE None

get_weather_icon(weather_code) ==
    IF IsIconKey(weather_code)
        THEN PyText(WEATHER_ICONS[weather_code.v])
        ELSE PyText(SENTINEL)

-----------------------------------------------------------------------------
(* Dates: datetime - timedelta(days=n) and strftime('%Y-%m-%d') *)

IsLeap(y) == (y % 4 = 0) /\ ((y % 100 # 0) \/ (y % 400 = 0))

DaysInMonth(y, m) ==
    CASE m \in {1, 3, 5, 7, 8, 10, 12} -> 31
      [] m \in {4, 6, 9, 11} -> 30
      [] m = 2 -> IF IsLeap(y) THEN 29 ELSE 28

Date(y, m, d) == [year |-> y, month |-> m, day |-> d]

\* the date one day earlier
PrevDay(dt) ==
    IF dt.day > 1 THEN Date(dt.year, dt.month, dt.day - 1)
    ELSE IF dt.month > 1
        THEN Date(dt.year, dt.month - 1, DaysInMonth(dt.year, dt.month - 1))
        ELSE Date(dt.year - 1, 12, 31)

\* dt - timedelta(days=n)
RECURSIVE MinusDays(_, _)
MinusDays(dt, n) == IF n = 0 THEN dt ELSE MinusDays(PrevDay(dt), n - 1)

\* a number zero-padded to at least w digits
RECURSIVE ZeroPad(_, _)
ZeroPad(str, w) == IF Len(str) >= w THEN str ELSE ZeroPad("0" \o str, w)

\* dt.strftime('%Y-%m-%d')
StrfDate(dt) ==
    ZeroPad(NatStr(dt.year), 4) \o "-" \o ZeroPad(NatStr(dt.month), 2)
        \o "-" \o ZeroPad(NatStr(dt.day), 2)

CURRENT_FIELDS == "temperature_2m,weather_code,precipitation_probability,wind_speed_10m"
HOURLY_FIELDS == "temperature_2m,precipitation_probability,wind_speed_10m"
DAILY_FIELDS == "temperature_2m_max,temperature_2m_min,weather_code"

\* The wrong window: the seven days ending today
WeatherParamsEndingToday(now, latitude, longitude, is_historical) ==
    IF is_historical
    THEN [latitude |-> latitude, longitude |-> longitude,
          start_date |-> StrfDate(MinusDays(now, 6)),
          end_date |-> StrfDate(now),
          daily |-> DAILY_FIELDS]
    ELSE [latitude |-> latitude, longitude |-> longitude,
          current |-> CURRENT_FIELDS, hourly |-> HOURLY_FIELDS,
          forecast_days |-> 1]

\* params of the forecast request, as fetch_weather_data builds them
WeatherParams(now, latitude, longitude, is_historical) ==
    IF is_historical
    THEN [latitude |-> latitude, longitude |-> longitude,
          start_date |-> StrfDate(MinusDays(now, 7)),
          end_date |-> StrfDate(MinusDays(now, 1)),
          daily |-> DAILY_FIELDS]
    ELSE [latitude |-> latitude, longitude |-> longitude,
          current |-> CURRENT_FIELDS, hourly |-> HOURLY_FIELDS,
          forecast_days |-> 1]

-----------------------------------------------------------------------------
(* The two services, as the script sees them.  A response is either a      *)
(* failure (requests.get or raise_for_status raised a RequestException) or *)
(* a decoded JSON body.                                                    *)

PyCoord(h) == [t |-> "float", hundredths |-> h]

Failure == [ok |-> FALSE]
Success(data) == [ok |-> TRUE, data |-> data]

Cities == {"Lviv", "Kyiv"}

\* the first match the geocoding service has for a city
Place(city) ==
    CASE city = "Lviv" ->
            [latitude |-> PyCoord(4984), longitude |-> PyCoord(2403),
             country |-> PyText("Ukraine")]
      [] city = "Kyiv" ->
            [latitude |-> PyCoord(5045), longitude |-> PyCoord(3052),
             country |-> PyText("Ukraine")]

\* f restricted to the keys in S
Restrict(f, S) == [k \in (S \cap DOMAIN f) |-> f[k]]

GeoResponses(city) ==
    {Failure,
     Success(EmptyDict),
     Success([results |-> <<>>]),
     Success([results |-> <<Place(city)>>]),
     Success([results |-> <<Restrict(Place(city), {"latitude", "longitude"})>>])}

-----------------------------------------------------------------------------
(* st.cache_data(ttl): a store from the call's arguments to the value it   *)
(* returned and the st elements it drew, which a hit replays.  An entry is *)
(* served while it is younger than ttl seconds.  Each entry also remembers *)
(* the exchange with the service that produced it.                         *)

GEO_TTL == 3600
WEATHER_TTL == 600

CacheHit(cache, key, ttl) == key \in DOMAIN cache /\ cache[key].age < ttl

CachePut(cache, key, entry) ==
    [k \in DOMAIN cache \cup {key} |-> IF k = key THEN entry ELSE cache[k]]

NotFound == <<None, None, None>>

GeoRequest(city_name) ==
    [url |-> GEOCODING_API_URL, params |-> [name |-> city_name, count |-> 1]]

\* the body of get_coordinates, run on a cache miss
GetCoordinatesBody(city_name, response) ==
    IF response.ok
    THEN LET data == response.data IN
         IF "results" \in DOMAIN data /\ Len(data["results"]) > 0
         THEN LET location == data["results"][1] IN
              [ret |-> <<location["latitude"], location["longitude"],
                         DictGet(location, "country", PyText(""))>>,
               shown |-> <<>>]
         ELSE [ret |-> NotFound, shown |-> <<>>]
    ELSE [ret |-> NotFound, shown |-> <<"Error during geocoding">>]

\* without the decorator: every call runs the body
get_coordinates_uncached(cache, city_name, response) ==
    LET r == GetCoordinatesBody(city_name, response) IN
    [ret |-> r.ret, shown |-> r.shown, requests |-> <<GeoRequest(city_name)>>,
     answer |-> response, cache |-> cache]

\* The result also tells which answer of the service the value comes from.
get_coordinates(cache, city_name, response) ==
    IF CacheHit(cache, city_name, GEO_TTL)
    THEN [ret |-> cache[city_name].value, shown |-> cache[city_name].shown,
          requests |-> <<>>, answer |-> cache[city_name].answer, cache |-> cache]
    ELSE LET r == GetCoordinatesBody(city_name, response) IN
         [ret |-> r.ret, shown |-> r.shown,
          requests |-> <<GeoRequest(city_name)>>, answer |-> response,
          cache |-> CachePut(cache, city_name,
                             [value |-> r.ret, shown |-> r.shown, age |-> 0,
                              answer |-> response])]

\* a key that leaves the mode out
WeatherKeyNoMode(latitude, longitude, is_historical) ==
    <<latitude, longitude, FALSE>>

\* the cache key of a fetch_weather_data call: its arguments
WeatherKey(latitude, longitude, is_historical) ==
    <<latitude, longitude, is_historical>>

WeatherRequest(now, latitude, longitude, is_historical) ==
    [url |-> WEATHER_API_URL,
     params |-> WeatherParams(now, latitude, longitude, is_historical)]

\* the body of fetch_weather_data, run on a cache miss
FetchWeatherBody(response) ==
    IF response.ok
    THEN [ret |-> response.data, shown |-> <<>>]
    ELSE [ret |-> None, shown |-> <<"Error fetching weather data">>]

\* The result also tells where the returned value came from: origin is the
\* request whose response it is, originAge that request's age, and foundAge the
\* age of the entry the call found (-1 when there was none).
fetch_weather_data(cache, now, latitude, longitude, is_historical, response) ==
    LET key == WeatherKey(latitude, longitude, is_historical)
        foundAge == IF key \in DOMAIN cache THEN cache[key].age ELSE -1
    IN  IF CacheHit(cache, key, WEATHER_TTL)
        THEN [ret |-> cache[key].value, shown |-> cache[key].shown,
              requests |-> <<>>, cache |-> cache,
              origin |-> cache[key].origin, originAge |-> cache[key].age,
              foundAge |-> foundAge]
        ELSE LET r == FetchWeatherBody(response)
                 req == WeatherRequest(now, latitude, longitude, is_historical)
             IN  [ret |-> r.ret, shown |-> r.shown, requests |-> <<req>>,
                  cache |-> CachePut(cache, key,
                                     [value |-> r.ret, shown |-> r.shown,
                                      age |-> 0, origin |-> req]),
                  origin |-> req, originAge |-> 0, foundAge |-> foundAge]

-----------------------------------------------------------------------------
(* The three tabs.  Each yields what the tab shows: metrics, a chart with  *)
(* its table, a warning, or the exception that ended the script.           *)

DEGREE == "{deg}"

Warning(text) == [kind |-> "warning", text |-> text]
Raised(error) == [kind |-> "raised", error |-> error]
NotRendered == [kind |-> "not_rendered"]
Metric(label, value) == [label |-> label, value |-> value]

\* tab1 with the test "if current_temp:" in place of "is not None"
Tab1TruthTest(forecast_data) ==
    IF Truthy(forecast_data)
    THEN LET current_weather == DictGet(forecast_data, "current", EmptyDict)
             current_temp == DictGet(current_weather, "temperature_2m", None)
             current_weather_code == DictGet(current_weather, "weather_code", None)
             weather_icon == get_weather_icon(current_weather_code)
             precip_prob == DictGet(current_weather, "precipitation_probability", None)
             wind_speed == DictGet(current_weather, "wind_speed_10m", None)
         IN  IF current_temp # None /\ current_temp # PyFloat(0) /\ current_temp # PyInt(0)
             THEN [kind |-> "metrics",
                   metrics |->
                     <<Metric("Temperature " \o PyStr(weather_icon),
                              PyStr(current_temp) \o DEGREE \o "C"),
                       Metric("Wind Speed {wind}", PyStr(wind_speed) \o " km/h"),
                       Metric("Precipitation Chance {drop}", PyStr(precip_prob) \o "%")>>]
             ELSE Warning("Could not retrieve current conditions.")
    ELSE Warning("Could not retrieve forecast data.")

Tab1(forecast_data) ==
    IF Truthy(forecast_data)
    THEN LET current_weather == DictGet(forecast_data, "current", EmptyDict)
             current_temp == DictGet(current_weather, "temperature_2m", None)
             current_weather_code == DictGet(current_weather, "weather_code", None)
             weather_icon == get_weather_icon(current_weather_code)
             precip_prob == DictGet(current_weather, "precipitation_probability", None)
             wind_speed == DictGet(current_weather, "wind_speed_10m", None)
         IN  IF current_temp # None
             THEN [kind |-> "metrics",
                   metrics |->
                     <<Metric("Temperature " \o PyStr(weather_icon),
                              PyStr(current_temp) \o DEGREE \o "C"),
                       Metric("Wind Speed {wind}", PyStr(wind_speed) \o " km/h"),
                       Metric("Precipitation Chance {drop}", PyStr(precip_prob) \o "%")>>]
             ELSE Warning("Could not retrieve current conditions.")
    ELSE Warning("Could not retrieve forecast data.")

\* pd.DataFrame(d) indexed by its 'time' column: the index and the columns left
DataFrame(d) == [index |-> d["time"], columns |-> DOMAIN d \ {"time"}]

Tab2(forecast_data) ==
    IF Truthy(forecast_data)
    THEN LET hourly_data == DictGet(forecast_data, "hourly", EmptyDict) IN
         IF DOMAIN hourly_data # {} /\ "time" \in DOMAIN hourly_data
         THEN LET hourly_df == DataFrame(hourly_data) IN
              [kind |-> "chart", subheader |-> "Forecast for the Next 24 Hours",
               chart |-> hourly_df.columns, table |-> hourly_df]
         ELSE Warning("Could not retrieve hourly forecast data.")
    ELSE Warning("Could not retrieve forecast data.")

TEMP_COLUMNS == {"temperature_2m_max", "temperature_2m_min"}

\* rename(columns=...) of the two temperature columns
Renamed(column) ==
    CASE column = "temperature_2m_max" -> "Max Temp ({deg}C)"
      [] column = "temperature_2m_min" -> "Min Temp ({deg}C)"
      [] OTHER -> column

Tab3(historical_data) ==
    IF Truthy(historical_data)
    THEN LET daily_data == DictGet(historical_data, "daily", EmptyDict) IN
         IF DOMAIN daily_data # {} /\ "time" \in DOMAIN daily_data
         THEN LET historical_df == DataFrame(daily_data) IN
              \* historical_df[[...]] raises KeyError when a column is missing
              IF TEMP_COLUMNS \subseteq historical_df.columns
              THEN [kind |-> "chart", subheader |-> "Weather for the Last 7 Days",
                    chart |-> {Renamed(c) : c \in TEMP_COLUMNS},
                    table |-> historical_df]
              ELSE Raised("KeyError")
         ELSE Warning("Could not retrieve historical data.")
    ELSE Warning("Could not retrieve historical data.")

\* The with-blocks run in order; an exception ends the script there.
RenderTabs(forecast_data, historical_data) ==
    LET t1 == Tab1(forecast_data)
        t2 == IF t1.kind = "raised" THEN NotRendered ELSE Tab2(forecast_data)
        t3 == IF t1.kind = "raised" \/ t2.kind \in {"raised", "not_rendered"}
              THEN NotRendered ELSE Tab3(historical_data)
    IN  <<t1, t2, t3>>

-----------------------------------------------------------------------------
(* What the forecast service can answer *)

CURRENT_KEYS ==
    {"temperature_2m", "weather_code", "precipitation_probability", "wind_speed_10m"}
HOURLY_KEYS == {"time", "temperature_2m", "precipitation_probability", "wind_speed_10m"}
DAILY_KEYS == {"time", "temperature_2m_max", "temperature_2m_min", "weather_code"}

FullCurrent ==
    [temperature_2m |-> PyFloat(215), weather_code |-> PyInt(3),
     precipitation_probability |-> PyInt(10), wind_speed_10m |-> PyInt(12)]

FullHourly ==
    [time |-> <<"T00:00", "T01:00">>,
     temperature_2m |-> <<PyFloat(201), PyFloat(198)>>,
     precipitation_probability |-> <<PyInt(10), PyInt(20)>>,
     wind_speed_10m |-> <<PyFloat(118), PyFloat(124)>>]

\* the daily series of the window a historical request asks for
FullDaily(params) ==
    [time |-> <<params["start_date"], params["end_date"]>>,
     temperature_2m_max |-> <<PyFloat(254), PyFloat(231)>>,
     temperature_2m_min |-> <<PyFloat(132), PyFloat(140)>>,
     weather_code |-> <<PyInt(3), PyInt(61)>>]

\* the body the service sends for a request when it leaves out the keys in
\* missing: a whole section of a forecast, a column of the daily series
WeatherBody(params, missing) ==
    IF "daily" \in DOMAIN params
    THEN [daily |-> Restrict(FullDaily(params), DAILY_KEYS \ missing)]
    ELSE Restrict([current |-> FullCurrent, hourly |-> FullHourly],
                  {"current", "hourly"} \ missing)

\* a failure, or a body short of one of the key sets in shapes
WeatherResponses(params, shapes) ==
    {Failure} \cup {Success(WeatherBody(params, missing)) : missing \in shapes}

-----------------------------------------------------------------------------
(* The script *)

Step == 300

Pending == [t |-> "pending"]

BlankView ==
    [city |-> "", geo |-> <<>>, errors |-> <<>>, subheader |-> "",
     calls |-> <<>>, tabs |-> <<>>]

CouldNotFind == "Could not find coordinates"

\* one fetch_weather_data call of the cycle, for the page's record
Call(latitude, longitude, is_historical, f) ==
    [key |-> <<latitude, longitude, is_historical>>, ret |-> f.ret,
     requests |-> f.requests, origin |-> f.origin, originAge |-> f.originAge,
     foundAge |-> f.foundAge]

\* the window of city after a get_coordinates call that returned g
Window(win, g) ==
    IF win.open /\ win.age < GEO_TTL
    THEN [win EXCEPT !.requests = @ + Len(g.requests),
                     !.results = @ \cup {g.ret}]
    ELSE [open |-> TRUE, age |-> 0, requests |-> Len(g.requests),
          results |-> {g.ret}]

FailedKeys(v) == {v.calls[i].key : i \in {j \in DOMAIN v.calls : v.calls[j].ret = None}}

\* the script with no test before it fetches
LocatedUnchecked(lat, lon) == TRUE

\* the test of the script's branch
Located(lat, lon) == lat # None /\ lon # None

\* The responses that can come in for a call: the service's, when the call
\* sends a request, and nothing to choose from when it sends none.
Incoming(requests, responses) == IF requests = <<>> THEN {Failure} ELSE responses

\* One run of the script with the text input holding city.  The services
\* answer a geocoding request for city from answers[city] and a forecast
\* request with a failure or a body short of a key set of shapes.
Render(city, answers, shapes) ==
    /\ prevFailed' = FailedKeys(view)
    /\ UNCHANGED <<today, probe, result>>
    /\ IF city = ""
       THEN /\ view' = BlankView
            /\ UNCHANGED <<geoCache, weatherCache, geoWin>>
       ELSE \E geoResp \in Incoming(get_coordinates(geoCache, city, Failure).requests,
                                    answers[city]) :
            LET g == get_coordinates(geoCache, city, geoResp)
                lat == g.ret[1]
                lon == g.ret[2]
                country == g.ret[3]
                geo == <<[ret |-> g.ret, shown |-> g.shown, requests |-> g.requests,
                          answer |-> g.answer]>>
            IN  /\ geoCache' = g.cache
                /\ geoWin' = [geoWin EXCEPT ![city] = Window(@, g)]
                /\ IF Located(lat, lon)
                   THEN \E curResp \in
                            Incoming(fetch_weather_data(weatherCache, today, lat, lon,
                                                        FALSE, Failure).requests,
                                     WeatherResponses(WeatherParams(today, lat, lon, FALSE),
                                                      shapes)) :
                        LET f == fetch_weather_data(weatherCache, today, lat, lon, FALSE, curResp)
                        IN  \E histResp \in
                                Incoming(fetch_weather_data(f.cache, today, lat, lon,
                                                            TRUE, Failure).requests,
                                         WeatherResponses(WeatherParams(today, lat, lon, TRUE),
                                                          shapes)) :
                            LET h == fetch_weather_data(f.cache, today, lat, lon, TRUE, histResp)
                            IN  /\ weatherCache' = h.cache
                                /\ view' =
                                     [city |-> city, geo |-> geo,
                                      errors |-> g.shown \o f.shown \o h.shown,
                                      subheader |-> "Weather for " \o city \o ", " \o PyStr(country),
                                      calls |-> <<Call(lat, lon, FALSE, f),
                                                  Call(lat, lon, TRUE, h)>>,
                                      tabs |-> RenderTabs(f.ret, h.ret)]
                   ELSE /\ weatherCache' = weatherCache
                        /\ view' =
                             [city |-> city, geo |-> geo,
                              errors |-> g.shown \o <<CouldNotFind>>,
                              subheader |-> "", calls |-> <<>>, tabs |-> <<>>]

Older(age, ttl, dt) == Min(age + dt, ttl + 1)

\* dt seconds pass.  Ages stop counting once an entry is out of date.
Tick(dt) ==
    /\ geoCache' = [c \in DOMAIN geoCache |->
                      [geoCache[c] EXCEPT !.age = Older(@, GEO_TTL, dt)]]
    /\ weatherCache' = [k \in DOMAIN weatherCache |->
                          [weatherCache[k] EXCEPT !.age = Older(@, WEATHER_TTL, dt)]]
    /\ geoWin' = [c \in DOMAIN geoWin |->
                    IF geoWin[c].open
                    THEN [geoWin[c] EXCEPT !.age = Older(@, GEO_TTL, dt)]
                    ELSE geoWin[c]]
    /\ UNCHANGED <<today, view, prevFailed, probe, result>>

ClosedWindow == [open |-> FALSE]

InitApp ==
    /\ geoCache = EmptyDict
    /\ weatherCache = EmptyDict
    /\ view = BlankView
    /\ geoWin = [c \in Cities |-> ClosedWindow]
    /\ prevFailed = {}

Init ==
    /\ InitApp
    /\ today = Date(2024, 6, 15)
    /\ probe = Pending
    /\ result = Pending

EveryAnswer == [c \in Cities |-> GeoResponses(c)]

\* a body is whole, or has no hourly section and no temperature columns
Shapes == {{}, {"hourly", "temperature_2m_max", "temperature_2m_min"}}

\* One user and one city name (or none), every answer of the services, and
\* time without end.
Next ==
    \/ \E city \in {"Lviv", ""} : Render(city, EveryAnswer, Shapes)
    \/ Tick(Step)

Spec == Init /\ [][Next]_vars

-----------------------------------------------------------------------------
(* Two city names, hence two pairs of coordinates, over the first Horizon  *)
(* seconds after a lookup.  The services fail or answer in full.           *)

Horizon == 900

FoundOrFailure == [c \in Cities |-> {Failure, Success([results |-> <<Place(c)>>])}]

WithinHorizon == \A c \in DOMAIN geoCache : geoCache[c].age < Horizon

NextTwo ==
    \/ \E city \in Cities \cup {""} : Render(city, FoundOrFailure, {{}})
    \/ WithinHorizon /\ Tick(Step)

SpecTwo == Init /\ [][NextTwo]_vars

-----------------------------------------------------------------------------
(* get_weather_icon on its own: every input in a range, and None *)

IconBound == 120

IconInputs ==
    {None, PyInt(12345), PyInt(-12345)} \cup {PyInt(n) : n \in (0 - IconBound)..IconBound}

InitIcon ==
    /\ InitApp
    /\ today = Date(2024, 6, 15)
    /\ probe \in IconInputs
    /\ result = Pending

CallIcon ==
    /\ result = Pending
    /\ result' = get_weather_icon(probe)
    /\ UNCHANGED <<geoCache, weatherCache, today, view, geoWin, prevFailed, probe>>

SpecIcon == InitIcon /\ [][CallIcon]_vars

-----------------------------------------------------------------------------
(* The request parameters on every day of a range of years *)

FirstYear == 2023
LastYear == 2025

Dates ==
    {dt \in {Date(y, m, d) : y \in FirstYear..LastYear, m \in 1..12, d \in 1..31} :
        dt.day <= DaysInMonth(dt.year, dt.month)}

InitDate ==
    /\ InitApp
    /\ today \in Dates
    /\ probe = Pending
    /\ result = Pending

BuildParams ==
    \E c \in Cities, is_historical \in BOOLEAN :
        /\ probe' = [latitude |-> Place(c)["latitude"],
                     longitude |-> Place(c)["longitude"],
                     is_historical |-> is_historical]
        /\ result' = WeatherParams(today, Place(c)["latitude"], Place(c)["longitude"],
                                   is_historical)
        /\ UNCHANGED <<geoCache, weatherCache, today, view, geoWin, prevFailed>>

SpecDate == InitDate /\ [][BuildParams]_vars

-----------------------------------------------------------------------------
(* The three tabs on every shape of fetched data *)

\* the dicts that hold, for each key of a subset of keys, one of its values
RECURSIVE Dicts(_, _)
Dicts(keys, values) ==
    IF keys = {} THEN {EmptyDict}
    ELSE LET k == CHOOSE x \in keys : TRUE
             rest == Dicts(keys \ {k}, values)
         IN  rest \cup
             {[j \in DOMAIN d \cup {k} |-> IF j = k THEN v ELSE d[j]] :
                 d \in rest, v \in values[k]}

CurrentValues ==
    [key \in CURRENT_KEYS |->
        CASE key = "temperature_2m" -> {PyFloat(215), PyFloat(0), PyInt(-3), None}
          [] key = "weather_code" -> {PyInt(3), PyInt(12345)}
          [] key = "precipitation_probability" -> {PyInt(10)}
          [] key = "wind_speed_10m" -> {PyInt(12)}]

HourlyValues == [key \in HOURLY_KEYS |-> {FullHourly[key]}]

DailyValues ==
    [key \in DAILY_KEYS |->
        {FullDaily([start_date |-> "2024-06-08", end_date |-> "2024-06-14"])[key]}]

SectionValues ==
    [key \in {"current", "hourly", "daily"} |->
        CASE key = "current" -> Dicts(CURRENT_KEYS, CurrentValues)
          [] key = "hourly" -> Dicts(HOURLY_KEYS, HourlyValues)
          [] key = "daily" -> Dicts(DAILY_KEYS, DailyValues)]

\* what fetch_weather_data can return: None, or a body with any of its keys
ForecastData == {None} \cup Dicts({"current", "hourly"}, SectionValues)
HistoricalData == {None} \cup Dicts({"daily"}, SectionValues)

InitView ==
    /\ InitApp
    /\ today = Date(2024, 6, 15)
    /\ probe \in [forecast_data : ForecastData, historical_data : HistoricalData]
    /\ result = Pending

ShowTabs ==
    /\ result = Pending
    /\ result' = RenderTabs(probe.forecast_data, probe.historical_data)
    /\ UNCHANGED <<geoCache, weatherCache, today, view, geoWin, prevFailed, probe>>

SpecView == InitView /\ [][ShowTabs]_vars

-----------------------------------------------------------------------------
(* Properties of a render cycle.  view is the page of the last cycle.      *)

GeoCalled == view.geo # <<>>
Geo == view.geo[1]
NoResults(answer) ==
    answer.ok /\ ("results" \notin DOMAIN answer.data \/ answer.data["results"] = <<>>)
Contains(seq, x) == \E i \in DOMAIN seq : seq[i] = x
Shown(tab) == tab.kind \in {"metrics", "chart"}
Warned(tab) == tab.kind = "warning"

\* C1: in a cycle whose geocoding answer has no results (no `results` key, or
\* an empty list), get_coordinates returns (None, None, None),
\* fetch_weather_data is not called in either mode, no tab is drawn, and the
\* 'could not find' message is shown.
NoResultsSkipsFetch ==
    (GeoCalled /\ NoResults(Geo.answer)) =>
        /\ Geo.ret = NotFound
        /\ view.calls = <<>>
        /\ view.tabs = <<>>
        /\ Contains(view.errors, CouldNotFind)

NoResultsFromCache ==
    /\ GeoCalled
    /\ Geo.answer = Success([results |-> <<>>])
    /\ Geo.requests = <<>>
    /\ view.errors = <<CouldNotFind>>

\* C2: a failed fetch is never served from the cache: a call that sends no
\* request does not return None, and a key whose fetch failed in one cycle is
\* requested anew when the next cycle calls it.
FailureNeverCached ==
    \A i \in DOMAIN view.calls :
        /\ view.calls[i].requests = <<>> => view.calls[i].ret # None
        /\ view.calls[i].key \in prevFailed => view.calls[i].requests # <<>>

\* C3: within one 1-hour window of calls for a city name, at most one
\* geocoding request goes out and every call returns the same result.
OneLookupPerWindow ==
    \A c \in Cities :
        geoWin[c].open =>
            /\ geoWin[c].requests <= 1
            /\ Cardinality(geoWin[c].results) <= 1

FailedLookupReplayed ==
    /\ GeoCalled
    /\ Geo.answer = Failure
    /\ Geo.requests = <<>>
    /\ geoWin[view.city].open
    /\ geoWin[view.city].age > 0
    /\ geoWin[view.city].age < GEO_TTL
    /\ geoWin[view.city].requests = 1

\* C4: when the geocoding call fails, the page tells the failure apart from
\* 'no match': it shows the fetch error, does not show the 'could not find'
\* message, and sends no second geocoding request in the cycle.
GeoFailureDistinct ==
    (GeoCalled /\ ~Geo.answer.ok) =>
        /\ Contains(view.errors, "Error during geocoding")
        /\ ~Contains(view.errors, CouldNotFind)
        /\ Len(Geo.requests) <= 1

\* C5: a failed fetch stays local.  With the current-mode fetch failed and the
\* historical one answered, tabs 1 and 2 warn and tab 3 draws its data; with
\* the historical fetch failed and the current one answered, tab 3 warns; and
\* whatever the two outcomes, each of the three tabs shows data or a warning.
FetchFailureLocal ==
    view.calls # <<>> =>
        LET cur == view.calls[1].ret
            hist == view.calls[2].ret
        IN  /\ Len(view.tabs) = 3
            /\ \A i \in 1..3 : Shown(view.tabs[i]) \/ Warned(view.tabs[i])
            /\ cur = None => Warned(view.tabs[1]) /\ Warned(view.tabs[2])
            /\ hist = None => Warned(view.tabs[3])
            /\ (cur = None /\ hist # None) => Shown(view.tabs[3])

\* C10: the body fetch_weather_data returns for (lat, lon, mode) is the
\* response to a request for the same coordinates and the same mode, sent no
\* more than 10 minutes before the call; and a call that finds an entry older
\* than 10 minutes sends a request.
FreshAndOwnPayload ==
    \A i \in DOMAIN view.calls :
        LET call == view.calls[i] IN
        /\ call.ret # None =>
              /\ call.origin.params["latitude"] = call.key[1]
              /\ call.origin.params["longitude"] = call.key[2]
              /\ ("daily" \in DOMAIN call.origin.params) = call.key[3]
              /\ IF call.key[3]
                 THEN /\ "daily" \in DOMAIN call.ret
                      /\ call.ret["daily"]["time"] =
                            <<call.origin.params["start_date"],
                              call.origin.params["end_date"]>>
                 ELSE "current" \in DOMAIN call.ret
              /\ call.originAge <= WEATHER_TTL
        /\ call.foundAge > WEATHER_TTL => call.requests # <<>>

CachedPayloadServed ==
    /\ Len(view.calls) = 2
    /\ view.city = "Kyiv"
    /\ view.calls[2].ret # None
    /\ view.calls[2].requests = <<>>
    /\ view.calls[2].originAge > 0
    /\ \E k \in DOMAIN weatherCache :
          k[1] # view.calls[2].key[1] /\ weatherCache[k].age > WEATHER_TTL

\* Cycles of C5 whose historical body has its temperature columns: there the
\* statement of C5 holds.
FetchFailureLocalWithColumns ==
    (view.calls # <<>> /\ view.tabs[3].kind # "raised") => FetchFailureLocal

-----------------------------------------------------------------------------
(* Properties of the functions *)

Called == result # Pending

\* C6: for fetched bodies with any subset of the expected keys, each of the
\* three views shows its content or a warning and none raises, so no view
\* keeps another from being drawn.
EveryViewShownOrWarned ==
    (Called /\ probe.forecast_data # None /\ probe.historical_data # None) =>
        \A i \in 1..3 : Shown(result[i]) \/ Warned(result[i])

\* the day number of a date, counted from 0001-01-01 as day 1
DaysBeforeYear(y) == 365 * (y - 1) + ((y - 1) \div 4) - ((y - 1) \div 100) + ((y - 1) \div 400)
DaysBeforeMonth(y, m) ==
    <<0, 31, 59, 90, 120, 151, 181, 212, 243, 273, 304, 334>>[m]
        + (IF m > 2 /\ IsLeap(y) THEN 1 ELSE 0)
DayNumber(dt) == DaysBeforeYear(dt.year) + DaysBeforeMonth(dt.year, dt.month) + dt.day

TwoDigits ==
    <<"01", "02", "03", "04", "05", "06", "07", "08", "09", "10", "11",
      "12", "13", "14", "15", "16", "17", "18", "19", "20", "21", "22",
      "23", "24", "25", "26", "27", "28", "29", "30", "31">>

\* YYYY-MM-DD of a date whose year has four digits
IsoText(dt) == NatStr(dt.year) \o "-" \o TwoDigits[dt.month] \o "-" \o TwoDigits[dt.day]

\* the dates of the month of dt and of the month before it
Around(dt) ==
    {c \in {Date(y, m, d) : y \in {dt.year - 1, dt.year},
                            m \in {dt.month, IF dt.month = 1 THEN 12 ELSE dt.month - 1},
                            d \in 1..31} :
        c.day <= DaysInMonth(c.year, c.month)}

\* C7: on every date d a historical request carries start_date = d - 7 days
\* and end_date = d - 1 day as YYYY-MM-DD, across month and year ends
\* (2024-06-15 gives 2024-06-08 and 2024-06-14); a current request carries
\* neither.
HistoricalWindow ==
    Called =>
        IF probe.is_historical
        THEN /\ \E s \in Around(today) :
                  /\ DayNumber(s) = DayNumber(today) - 7
                  /\ result["start_date"] = IsoText(s)
             /\ \E e \in Around(today) :
                  /\ DayNumber(e) = DayNumber(today) - 1
                  /\ result["end_date"] = IsoText(e)
             /\ Len(result["start_date"]) = 10
             /\ Len(result["end_date"]) = 10
             /\ today = Date(2024, 6, 15) =>
                  /\ result["start_date"] = "2024-06-08"
                  /\ result["end_date"] = "2024-06-14"
        ELSE /\ "start_date" \notin DOMAIN result
             /\ "end_date" \notin DOMAIN result

WindowAcrossNewYear ==
    /\ Called
    /\ probe.is_historical
    /\ today = Date(2024, 1, 3)
    /\ result["start_date"] = "2023-12-27"
    /\ result["end_date"] = "2024-01-02"

\* C8: get_weather_icon returns a glyph for every integer and for None: the
\* table's glyph when the code is a key of WEATHER_ICONS and the sentinel
\* otherwise (0 the sun, 95 the thunderstorm, 12345 the sentinel), and no
\* entry of the table is the sentinel.
IconTotal ==
    /\ \A c \in DOMAIN WEATHER_ICONS : WEATHER_ICONS[c] # SENTINEL
    /\ Called =>
          /\ result.t = "str"
          /\ IF probe.t = "int" /\ probe.v \in IconCodes
             THEN result.s = WEATHER_ICONS[probe.v] /\ result.s # "{question}"
             ELSE result.s = "{question}"
          /\ probe = PyInt(0) => result.s = "{sun}"
          /\ probe = PyInt(95) => result.s = "{thunder_cloud}"
          /\ probe = PyInt(12345) => result.s = "{question}"

IconOfNone ==
    /\ Called
    /\ probe = None
    /\ result = PyText("{question}")

\* what the temperature metric reads for each temperature of CurrentValues
TemperatureText(temp) ==
    CASE temp = PyFloat(215) -> "21.5{deg}C"
      [] temp = PyFloat(0) -> "0.0{deg}C"
      [] temp = PyInt(-3) -> "-3{deg}C"

IconText(current) ==
    IF "weather_code" \in DOMAIN current /\ current["weather_code"] = PyInt(3)
    THEN "{cloud}" ELSE "{question}"

\* C9: for a fetched body, the current view shows exactly three metrics
\* (temperature with the icon of the weather code, wind speed, precipitation
\* probability) and no warning when current.temperature_2m has a value, and a
\* warning and no metric when it has none; the body {21.5, 3, 10, 12} reads
\* "21.5{deg}C" with the cloud icon, "12 km/h" and "10%".
CurrentViewMetrics ==
    (Called /\ probe.forecast_data # None) =>
        LET data == probe.forecast_data
            current == IF "current" \in DOMAIN data THEN data["current"] ELSE EmptyDict
            hasTemp == /\ "temperature_2m" \in DOMAIN current
                       /\ current["temperature_2m"] # None
            tab == result[1]
        IN  /\ hasTemp =>
                /\ tab.kind = "metrics"
                /\ Len(tab.metrics) = 3
                /\ tab.metrics[1].label = "Temperature " \o IconText(current)
                /\ tab.metrics[1].value = TemperatureText(current["temperature_2m"])
                /\ tab.metrics[2].label = "Wind Speed {wind}"
                /\ tab.metrics[3].label = "Precipitation Chance {drop}"
                /\ "wind_speed_10m" \in DOMAIN current => tab.metrics[2].value = "12 km/h"
                /\ "precipitation_probability" \in DOMAIN current =>
                      tab.metrics[3].value = "10%"
            /\ ~hasTemp => tab.kind = "warning"
            /\ current = FullCurrent =>
                  tab.metrics =
                     <<Metric("Temperature {cloud}", "21.5{deg}C"),
                       Metric("Wind Speed {wind}", "12 km/h"),
                       Metric("Precipitation Chance {drop}", "10%")>>

ExampleMetrics ==
    /\ Called
    /\ probe.forecast_data = [current |-> FullCurrent]
    /\ result[1].kind = "metrics"
    /\ result[1].metrics[1] = Metric("Temperature {cloud}", "21.5{deg}C")

====
